---------------------------- MODULE Spec2Model ----------------------------
(***************************************************************************)
(* Model of the manim-skill tools:                                         *)
(*   tools/video_viewer.py  (chapter timeline, HTTP viewer server)         *)
(*   tools/concat_srt.py    (subtitle timeline merger)                     *)
(***************************************************************************)
EXTENDS Integers, Sequences, FiniteSets, TLC

(***************************************************************************)
(* Python floats (IEEE-754 binary64, round to nearest, ties to even).      *)
(* A non-negative float is <<ip, fl>>: its integer part and the digits of  *)
(* its fraction in base LimbBase, fl[1] the highest.  Every float the      *)
(* model handles is 0 or at least 2^-10, so the last digit of its 53-bit   *)
(* significand is the 2^-62 digit or higher, and the fraction digits hold  *)
(* it exactly, with room below for the rounding digit.                     *)
(***************************************************************************)
LimbBits == 16

FracLimbs == 4

MantissaBits == 53

RECURSIVE Pow2(_)
Pow2(n) == IF n = 0 THEN 1 ELSE 2 * Pow2(n - 1)

LimbBase == Pow2(LimbBits)

FracBits == LimbBits * FracLimbs

RECURSIVE Zeros(_)
Zeros(n) == IF n = 0 THEN <<>> ELSE <<0>> \o Zeros(n - 1)

FloatOfInt(n) == <<n, Zeros(FracLimbs)>>

FloatZero == FloatOfInt(0)

RECURSIVE BitLen(_)
BitLen(n) == IF n = 0 THEN 0 ELSE 1 + BitLen(n \div 2)

\* number of leading zero binary digits of a fraction
RECURSIVE LeadingZeros(_)
LeadingZeros(fl) ==
    IF fl = <<>> THEN 0
    ELSE IF Head(fl) # 0 THEN LimbBits - BitLen(Head(fl))
    ELSE LimbBits + LeadingZeros(Tail(fl))

\* digits i..1 of a + b, from the lowest digit up; <<carry out, digits>>
RECURSIVE AddDigits(_, _, _, _, _)
AddDigits(a, b, i, carry, acc) ==
    IF i = 0 THEN <<carry, acc>>
    ELSE AddDigits(a, b, i - 1, (a[i] + b[i] + carry) \div LimbBase,
                   <<(a[i] + b[i] + carry) % LimbBase>> \o acc)

\* exact sum of two fixed-point values
FixAdd(a, b) ==
    LET s == AddDigits(a[2], b[2], FracLimbs, 0, <<>>)
    IN  <<a[1] + b[1] + s[1], s[2]>>

\* 2^-k as a fixed-point value, 0 <= k <= FracBits
FixUnit(k) ==
    IF k = 0 THEN FloatOfInt(1)
    ELSE LET j == (k + LimbBits - 1) \div LimbBits
         IN  <<0, Zeros(j - 1) \o <<Pow2(j * LimbBits - k)>> \o Zeros(FracLimbs - j)>>

\* binary digit k of a fraction (k = 1 the 2^-1 digit)
FracBit(fl, k) ==
    LET j == (k + LimbBits - 1) \div LimbBits
    IN  (fl[j] \div Pow2(j * LimbBits - k)) % 2

\* the fraction with every binary digit after digit k cleared
FracCut(fl, k) ==
    LET j == k \div LimbBits
        r == k % LimbBits
    IN  IF r = 0 THEN SubSeq(fl, 1, j) \o Zeros(FracLimbs - j)
        ELSE SubSeq(fl, 1, j)
             \o <<(fl[j + 1] \div Pow2(LimbBits - r)) * Pow2(LimbBits - r)>>
             \o Zeros(FracLimbs - j - 1)

\* Round an exact value (with a sticky flag for what lies below the last
\* digit) to MantissaBits significant binary digits, ties to even: what
\* every float operation does with its exact result.
FloatRound(x, sticky) ==
    LET ip   == x[1]
        fl   == x[2]
        keep == IF ip > 0 THEN MantissaBits - BitLen(ip)
                ELSE LeadingZeros(fl) + MantissaBits
    IN  IF keep >= FracBits THEN x
        ELSE
          LET guard == FracBit(fl, keep + 1)
              rest  == sticky \/ FracCut(fl, keep + 1) # fl
              lsb   == IF keep = 0 THEN ip % 2 ELSE FracBit(fl, keep)
              cut   == <<ip, FracCut(fl, keep)>>
          IN  IF guard = 1 /\ (rest \/ lsb = 1)
              THEN FixAdd(cut, FixUnit(keep))
              ELSE cut

\* a + b on floats
FloatAdd(a, b) == FloatRound(FixAdd(a, b), FALSE)

\* digits of r / d for 0 <= r < d, highest first; <<digits, remainder>>
RECURSIVE DivDigits(_, _, _, _)
DivDigits(r, d, i, acc) ==
    IF i = 0 THEN <<acc, r>>
    ELSE DivDigits((LimbBase * r) % d, d, i - 1,
                   Append(acc, (LimbBase * r) \div d))

\* n / d on integers (true division), d > 0
FloatDiv(n, d) ==
    LET q == DivDigits(n % d, d, FracLimbs, <<>>)
    IN  FloatRound(<<n \div d, q[1]>>, q[2] # 0)

\* digits i..1 of fl * k, from the lowest digit up; <<carry out, digits>>
RECURSIVE MulDigits(_, _, _, _, _)
MulDigits(fl, k, i, carry, acc) ==
    IF i = 0 THEN <<carry, acc>>
    ELSE MulDigits(fl, k, i - 1, (fl[i] * k + carry) \div LimbBase,
                   <<(fl[i] * k + carry) % LimbBase>> \o acc)

\* x * k for a float x and a small positive integer k
FloatMulInt(x, k) ==
    LET p == MulDigits(x[2], k, FracLimbs, 0, <<>>)
    IN  FloatRound(<<x[1] * k + p[1], p[2]>>, FALSE)

\* x % 1
FloatFrac(x) == <<0, x[2]>>

\* int(x)
FloatTrunc(x) == x[1]

(***************************************************************************)
(* Inputs of the timeline tools: the ordered segment list.  A segment is   *)
(* what the tools can observe of one path of the list: whether the video   *)
(* file exists, what ffprobe answers for it, and the subtitle file beside  *)
(* it (NoSrt: none).                                                       *)
(***************************************************************************)
MaxSegments == 3

NoDuration == -1

\* ffprobe's answers: exit code and the "duration" of its JSON "format"
\* object, a decimal string held in milliseconds (NoDuration: no such key)
ProbeFailed == [rc |-> 1, duration |-> NoDuration]

Probes ==
    { ProbeFailed,
      [rc |-> 0, duration |-> NoDuration],
      [rc |-> 0, duration |-> 10000],
      [rc |-> 0, duration |-> 100] }

\* lines of a subtitle file
NumLine == [kind |-> "number"]

TextLine == [kind |-> "text"]

TimeLine(s, e) == [kind |-> "time", start |-> s, end |-> e]

NoSrt == <<>>

\* a subtitle file as read_text().strip().split("\n\n") sees it:
\* its blocks, each a sequence of lines; times are <<h, m, s, digits>>
SrtFile ==
    << <<NumLine, TimeLine(<<0, 0, 1, 0>>, <<0, 0, 2, 0>>), TextLine>>,
       <<NumLine, TimeLine(<<0, 0, 2, 500>>, <<0, 0, 3, 0>>)>>,
       <<NumLine, TimeLine(<<0, 0, 3, 100>>, <<0, 1, 1, 1>>), TextLine, TextLine>> >>

Segments ==
    { v \in [exists : BOOLEAN, probe : Probes, srt : {NoSrt, SrtFile}] :
        ~v.exists => v.probe = ProbeFailed }

RECURSIVE SeqsUpTo(_, _)
SeqsUpTo(S, n) ==
    IF n = 0 THEN { <<>> }
    ELSE SeqsUpTo(S, n - 1)
         \cup { Append(q, x) : q \in { r \in SeqsUpTo(S, n - 1) : Len(r) = n - 1 }, x \in S }

VARIABLES
    scene_videos,   \* the ordered segment list given to both tools
    viewer_pc,      \* video_viewer.main: "start", then "built"
    chapters,       \* build_chapters' result
    srt_pc,         \* concat_srt.main: "start", then "done"
    entries,        \* concat_srt.main: the merged entries written out
    offsets,        \* concat_srt.main: offset while segment k was processed
    video_file,     \* the final video on disk: [state, size]
    temp_dir,       \* names of the thumbnails in the temporary directory
    conn,           \* each client connection's state
    serving,        \* the connection whose request the server is handling (0: none)
    request,        \* the request handled last
    response,       \* what the handler sent for it
    outcome,        \* how that handling ended: "none" yet, "answered", "dropped",
                    \* "reported"
    job_log,        \* the last answered /download... exchanges, oldest first
    temp_exists,    \* video_viewer.main: the temporary directory is on disk
    build_k,        \* build_chapters: the loop's position in scene_videos
    build_time,     \* build_chapters: current_time, the running total
    leaving,        \* video_viewer.main: how the try block was left
    scenes,         \* render_scenes: the requested scene names
    futures,        \* render_scenes: each submitted call, its result once done
    scene_results,  \* render_scenes: the results collected so far
    render_pc,      \* render_scenes: "start", "submitted", "returned"
    stitch_run,     \* stitch_videos: what running ffmpeg will come to
    stitch_pc,      \* stitch_videos: "start", "listed", "ran", "returned"
    concat_file,    \* stitch_videos: the temporary concat list is on disk
    stitch_result,  \* stitch_videos: the returned dict
    script_exists,  \* render_manim: the script file is on disk
    render_result,  \* render_manim: the returned dict
    exit_code       \* render_manim.main: <<>> while it runs, then <<code>>

tvars == <<scene_videos, viewer_pc, chapters, srt_pc, entries, offsets>>

svars == <<video_file, temp_dir, conn, serving, request, response, outcome, job_log>>

mvars == <<temp_exists, build_k, build_time, leaving>>

cvars == <<script_exists, render_result, exit_code>>

rvars == <<scenes, futures, scene_results, render_pc, stitch_run, stitch_pc,
           concat_file, stitch_result, cvars>>

vars == <<tvars, svars, mvars, rvars>>

(***************************************************************************)
(* video_viewer.py: the chapter indexer                                    *)
(***************************************************************************)
\* float(data.get("format", {}).get("duration", 0)), or 0.0 when ffprobe failed
get_video_duration(video) ==
    IF video.probe.rc # 0 THEN FloatZero
    ELSE IF video.probe.duration = NoDuration THEN FloatOfInt(0)
    ELSE FloatDiv(video.probe.duration, 1000)

\* the chapter appended for scene_videos[i + 1] (enumerate counts from 0)
Chapter(i, video, current_time) ==
    [index |-> i, start |-> current_time,
     duration |-> get_video_duration(video), thumbnail |-> i]

\* a chapter indexer that forgets to advance the running total
AdvanceTime_Forgotten(current_time, duration) == current_time

\* current_time += duration
AdvanceTime(current_time, duration) == FloatAdd(current_time, duration)

\* a chapter indexer that does not check the path
SkipVideo_Never(video) == FALSE

\* if not os.path.exists(video_path): continue
SkipVideo(video) == ~video.exists

RECURSIVE build_chapters_from(_, _, _, _)
build_chapters_from(videos, k, current_time, acc) ==
    IF k > Len(videos) THEN acc
    ELSE IF SkipVideo(videos[k])
         THEN build_chapters_from(videos, k + 1, current_time, acc)
         ELSE build_chapters_from(
                  videos, k + 1,
                  AdvanceTime(current_time, get_video_duration(videos[k])),
                  Append(acc, Chapter(k - 1, videos[k], current_time)))

build_chapters(videos) == build_chapters_from(videos, 1, FloatZero, <<>>)

(***************************************************************************)
(* concat_srt.py: the subtitle timeline merger                             *)
(***************************************************************************)
get_duration(video) ==
    IF video.probe.rc # 0 THEN FloatZero
    ELSE IF video.probe.duration = NoDuration THEN FloatOfInt(0)
    ELSE FloatDiv(video.probe.duration, 1000)

\* the formatted fields of "HH:MM:SS,mmm"
srt_time(s) ==
    LET h   == s[1] \div 3600
        rem == <<s[1] % 3600, s[2]>>
        m   == rem[1] \div 60
        sec == <<rem[1] % 60, rem[2]>>
    IN  <<h, m, FloatTrunc(sec), FloatTrunc(FloatMulInt(FloatFrac(sec), 1000))>>

\* int(h)*3600 + int(m)*60 + int(s) + int(digits)/1000 + offset
ShiftedTime(t, offset) ==
    FloatAdd(FloatAdd(FloatOfInt(t[1] * 3600 + t[2] * 60 + t[3]),
                      FloatDiv(t[4], 1000)),
             offset)

\* len(lines) < 3, or lines[1] does not match the time-range pattern
BlockSkipped(block) == Len(block) < 3 \/ block[2].kind # "time"

\* the entry appended for a block, numbered n
Entry(block, offset, n) ==
    [number |-> n,
     start  |-> srt_time(ShiftedTime(block[2].start, offset)),
     end    |-> srt_time(ShiftedTime(block[2].end, offset)),
     text   |-> SubSeq(block, 3, Len(block))]

\* a merger that numbers an entry by its block's place in its own file
RECURSIVE MergeBlocks_NumberedByBlock(_, _, _, _)
MergeBlocks_NumberedByBlock(blocks, j, offset, acc) ==
    IF j > Len(blocks) THEN acc
    ELSE MergeBlocks_NumberedByBlock(blocks, j + 1, offset,
                     IF BlockSkipped(blocks[j]) THEN acc
                     ELSE Append(acc, Entry(blocks[j], offset, j)))

\* a merger that gives up a subtitle file at its first malformed block
RECURSIVE MergeBlocks_StopAtMalformed(_, _, _, _)
MergeBlocks_StopAtMalformed(blocks, j, offset, acc) ==
    IF j > Len(blocks) \/ BlockSkipped(blocks[j]) THEN acc
    ELSE MergeBlocks_StopAtMalformed(blocks, j + 1, offset,
                     Append(acc, Entry(blocks[j], offset, Len(acc) + 1)))

RECURSIVE MergeBlocks(_, _, _, _)
MergeBlocks(blocks, j, offset, acc) ==
    IF j > Len(blocks) THEN acc
    ELSE MergeBlocks(blocks, j + 1, offset,
                     IF BlockSkipped(blocks[j]) THEN acc
                     ELSE Append(acc, Entry(blocks[j], offset, Len(acc) + 1)))

\* a merger that advances the offset only inside "if srt.exists()"
AdvanceOffset_OnlyWithSrt(video, offset) ==
    IF video.srt # NoSrt THEN FloatAdd(offset, get_duration(video)) ELSE offset

\* offset += get_duration(video)
AdvanceOffset(video, offset) == FloatAdd(offset, get_duration(video))

\* the loop over videos; <<entries, offset at each segment>>
RECURSIVE MergeVideos(_, _, _, _, _)
MergeVideos(videos, k, offset, acc, offs) ==
    IF k > Len(videos) THEN <<acc, offs>>
    ELSE MergeVideos(videos, k + 1, AdvanceOffset(videos[k], offset),
                     IF videos[k].srt # NoSrt
                     THEN MergeBlocks(videos[k].srt, 1, offset, acc)
                     ELSE acc,
                     Append(offs, offset))

concat_srt(videos) == MergeVideos(videos, 1, FloatZero, <<>>, <<>>)

(***************************************************************************)
(* video_viewer.py: the HTTP server                                        *)
(***************************************************************************)
MaxFileSize == 3

NumConns == 2

Conns == 1..NumConns

\* the final video holds, at offset k, the byte k
FileBytes(size) == [k \in 1..size |-> k - 1]

ThumbBytes == <<7, 9>>

\* A request path, split so that head \o tail is the unquoted path and
\* path.startswith("/thumb_") is head = "/thumb_".
Paths ==
    { <<"/", "">>, <<"/index.html", "">>, <<"/video.mp4", "">>,
      <<"/chapters.json", "">>, <<"/thumb_", "0.jpg">>, <<"/thumb_", "1.jpg">>,
      <<"/subtitles.srt", "">> }

DownloadPaths ==
    { <<"/download", "?quality=low">>, <<"/download", "?quality=high">>,
      <<"/download", "/status">> }

\* The Range header: absent, or "<unit>=<first>-<last><rest>" with first
\* and last strings of decimal digits (possibly empty).
NoRange == [unit |-> "", first |-> <<>>, last |-> <<>>]

DigitStrings ==
    { <<>>, <<0>>, <<1>>, <<0, 2>>, <<3>>, <<1, 0>> }

RangeHeaders ==
    {NoRange}
    \cup [unit : {"bytes"}, first : DigitStrings, last : DigitStrings]
    \cup {[unit |-> "items", first |-> <<0>>, last |-> <<1>>]}

Requests ==
    { r \in [path : Paths, range : RangeHeaders] :
        r.range # NoRange => r.path = <<"/video.mp4", "">> }

\* what a client using the download feature sends
DownloadRequests ==
    [path : DownloadPaths \cup {<<"/video.mp4", "">>}, range : {NoRange}]

MaxJobLog == 3

\* int() of a string of decimal digits
RECURSIVE int(_)
int(digits) ==
    IF digits = <<>> THEN 0
    ELSE 10 * int(SubSeq(digits, 1, Len(digits) - 1)) + digits[Len(digits)]

\* a pattern that forgets the unit: r"\w+=(\d+)-(\d*)"
RangeMatch_AnyUnit(range_header) == range_header.first # <<>>

\* re.match(r"bytes=(\d+)-(\d*)", range_header)
RangeMatch(range_header) ==
    range_header.unit = "bytes" /\ range_header.first # <<>>

\* an open range that ends at file_size
RangeEnd_OffByOne(range_header, file_size) ==
    IF range_header.last # <<>> THEN int(range_header.last) ELSE file_size

\* int(group(2)) if group(2) else file_size - 1
RangeEnd(range_header, file_size) ==
    IF range_header.last # <<>> THEN int(range_header.last) ELSE file_size - 1

\* f.seek(start); f.read(n): n = -1 reads to the end of the file
ReadAt(content, start, n) ==
    IF n = -1 THEN SubSeq(content, start + 1, Len(content))
    ELSE SubSeq(content, start + 1,
                IF start + n < Len(content) THEN start + n ELSE Len(content))

NoResponse ==
    [status |-> 0, kind |-> "none", content_range |-> <<>>,
     content_length |-> <<>>, accept_ranges |-> "", body |-> <<>>,
     failed |-> FALSE]

\* serve_file: file is [state, content]; state "missing" makes getsize
\* raise, "unreadable" makes open raise; both land in "except Exception",
\* which prints and sends nothing more.
serve_file(file, range_header) ==
    IF file.state = "missing" THEN [NoResponse EXCEPT !.failed = TRUE]
    ELSE
      LET file_size == Len(file.content)
      IN  IF range_header # NoRange /\ RangeMatch(range_header)
          THEN
            LET start == int(range_header.first)
                end   == RangeEnd(range_header, file_size)
                sent  == [status |-> 206, kind |-> "file",
                          content_range |-> <<start, end, file_size>>,
                          content_length |-> <<end - start + 1>>,
                          accept_ranges |-> "bytes", body |-> <<>>,
                          failed |-> FALSE]
            IN  IF file.state = "unreadable" \/ end - start + 1 < -1
                THEN [sent EXCEPT !.failed = TRUE]
                ELSE [sent EXCEPT !.body = ReadAt(file.content, start, end - start + 1)]
          ELSE
            LET sent == [status |-> 200, kind |-> "file",
                         content_range |-> <<>>,
                         content_length |-> <<file_size>>,
                         accept_ranges |-> "bytes", body |-> <<>>,
                         failed |-> FALSE]
            IN  IF file.state = "unreadable"
                THEN [sent EXCEPT !.failed = TRUE]
                ELSE [sent EXCEPT !.body = file.content]

\* send_error(404)
send_error_404 == [NoResponse EXCEPT !.status = 404, !.kind = "error_page"]

\* a route table that serves /thumb_... without looking for the file
do_GET_ThumbUnchecked(req, video, thumbs, chapter_list) ==
    IF req.path = <<"/", "">> \/ req.path = <<"/index.html", "">>
    THEN [NoResponse EXCEPT !.status = 200, !.kind = "viewer_html"]
    ELSE IF req.path = <<"/video.mp4", "">>
    THEN serve_file([state |-> video.state, content |-> FileBytes(video.size)],
                    req.range)
    ELSE IF req.path = <<"/chapters.json", "">>
    THEN [NoResponse EXCEPT !.status = 200, !.kind = "chapters_json",
                            !.body = chapter_list]
    ELSE IF req.path[1] = "/thumb_"
    THEN serve_file([state |-> IF req.path[2] \in thumbs THEN "ok" ELSE "missing",
                     content |-> ThumbBytes], req.range)
    ELSE send_error_404

\* do_GET: the route table
do_GET(req, video, thumbs, chapter_list) ==
    IF req.path = <<"/", "">> \/ req.path = <<"/index.html", "">>
    THEN [NoResponse EXCEPT !.status = 200, !.kind = "viewer_html"]
    ELSE IF req.path = <<"/video.mp4", "">>
    THEN serve_file([state |-> video.state, content |-> FileBytes(video.size)],
                    req.range)
    ELSE IF req.path = <<"/chapters.json", "">>
    THEN [NoResponse EXCEPT !.status = 200, !.kind = "chapters_json",
                            !.body = chapter_list]
    ELSE IF req.path[1] = "/thumb_"
    THEN IF req.path[2] \in thumbs
         THEN serve_file([state |-> "ok", content |-> ThumbBytes], req.range)
         ELSE send_error_404
    ELSE send_error_404

\* video_viewer.main's own variables, where only its server is looked at
MainIdle ==
    /\ temp_exists = TRUE
    /\ build_k = Len(scene_videos) + 1
    /\ build_time = FloatZero
    /\ leaving = "none"

\* render_manim.py not running
RenderIdle ==
    /\ scenes = <<>>
    /\ futures = <<>>
    /\ scene_results = <<>>
    /\ render_pc = "start"
    /\ stitch_run = "none"
    /\ stitch_pc = "start"
    /\ concat_file = FALSE
    /\ stitch_result = [status |-> "none"]
    /\ script_exists = TRUE
    /\ render_result = [status |-> "none"]
    /\ exit_code = <<>>

\* The viewer's start: main has built the chapters of its scene list, one
\* scene whose thumbnail thumb_0.jpg was extracted, and the server listens.
ServerScenes ==
    <<[exists |-> TRUE, probe |-> [rc |-> 0, duration |-> 10000], srt |-> NoSrt]>>

Init ==
    /\ scene_videos = ServerScenes
    /\ viewer_pc = "built"
    /\ chapters = build_chapters(scene_videos)
    /\ srt_pc = "start"
    /\ entries = <<>>
    /\ offsets = <<>>
    /\ video_file \in [state : {"ok"}, size : 0..MaxFileSize]
    /\ temp_dir = {"0.jpg"}
    /\ conn = [c \in Conns |-> "idle"]
    /\ serving = 0
    /\ request = [path |-> <<"", "">>, range |-> NoRange]
    /\ response = NoResponse
    /\ outcome = "none"
    /\ job_log = <<>>
    /\ MainIdle
    /\ RenderIdle

\* a client connects and sends its request
ClientConnect(c) ==
    /\ conn[c] = "idle"
    /\ conn' = [conn EXCEPT ![c] = "pending"]
    /\ UNCHANGED <<mvars, rvars, tvars, video_file, temp_dir, serving, request, response,
                   outcome, job_log>>

\* serve_forever takes the next connection and runs the handler on the
\* server's one thread (socketserver.TCPServer), up to its write of the body
Handle(c, requests) ==
    /\ serving = 0
    /\ conn[c] = "pending"
    /\ \E req \in requests :
         /\ request' = req
         /\ response' = do_GET(req, video_file, temp_dir, chapters)
    /\ conn' = [conn EXCEPT ![c] = "serving"]
    /\ serving' = c
    /\ outcome' = "none"
    /\ UNCHANGED <<mvars, rvars, tvars, video_file, temp_dir, job_log>>

HandleRequest(c) == Handle(c, Requests)

HandleDownloadRequest(c) == Handle(c, DownloadRequests)

\* the log with the exchange just answered added, if it was a /download one
Logged(log) ==
    IF request.path \in DownloadPaths
    THEN LET all == Append(log, [path |-> request.path, response |-> response])
         IN  IF Len(all) > MaxJobLog THEN Tail(all) ELSE all
    ELSE log

\* the write completes, the handler returns and the connection is closed
FinishRequest(c) ==
    /\ serving = c
    /\ conn' = [conn EXCEPT ![c] = "idle"]
    /\ serving' = 0
    /\ outcome' = "answered"
    /\ job_log' = Logged(job_log)
    /\ UNCHANGED <<mvars, rvars, tvars, video_file, temp_dir, request, response>>

\* what a write to a socket raises once the client has gone away
DisconnectErrors == {"BrokenPipeError", "ConnectionResetError"}

\* a handler that passes over a broken pipe only
Absorbed_OnlyBrokenPipe(exc) == exc = "BrokenPipeError"

\* except (BrokenPipeError, ConnectionResetError): pass
Absorbed(exc) == exc \in {"BrokenPipeError", "ConnectionResetError"}

\* The client goes away during the handler's write. Inside serve_file the
\* exception meets the handler's except clauses: passed over ("dropped"),
\* or printed by "except Exception" ("reported"). The other routes write
\* outside any try, and the server's handle_error reports the exception.
\* Either way the handler has ended and the server takes the next request.
ClientDisconnect(c) ==
    /\ serving = c
    /\ ~response.failed
    /\ conn' = [conn EXCEPT ![c] = "idle"]
    /\ serving' = 0
    /\ \E exc \in DisconnectErrors :
         outcome' = IF response.kind = "file" /\ Absorbed(exc)
                    THEN "dropped" ELSE "reported"
    /\ UNCHANGED <<mvars, rvars, tvars, video_file, temp_dir, request, response, job_log>>

\* the environment removes the video, or takes its read permission away
DamageVideo ==
    /\ video_file.state = "ok"
    /\ \E st \in {"missing", "unreadable"} :
         video_file' = [video_file EXCEPT !.state = st]
    /\ UNCHANGED <<mvars, rvars, tvars, temp_dir, conn, serving, request, response, outcome,
                   job_log>>

Next ==
    \/ \E c \in Conns : ClientConnect(c)
    \/ \E c \in Conns : HandleRequest(c)
    \/ \E c \in Conns : FinishRequest(c)
    \/ \E c \in Conns : ClientDisconnect(c)
    \/ DamageVideo

Spec == Init /\ [][Next]_vars

\* the same server with clients that use the download feature
NextDownload ==
    \/ \E c \in Conns : ClientConnect(c)
    \/ \E c \in Conns : HandleDownloadRequest(c)
    \/ \E c \in Conns : FinishRequest(c)
    \/ \E c \in Conns : ClientDisconnect(c)
    \/ DamageVideo

SpecDownload == Init /\ [][NextDownload]_vars

(***************************************************************************)
(* The two tools run, in either order, on the same segment list.           *)
(***************************************************************************)
InitTimeline ==
    /\ scene_videos \in SeqsUpTo(Segments, MaxSegments)
    /\ viewer_pc = "start"
    /\ chapters = <<>>
    /\ srt_pc = "start"
    /\ entries = <<>>
    /\ offsets = <<>>
    /\ video_file = [state |-> "ok", size |-> 0]
    /\ temp_dir = {}
    /\ conn = [c \in Conns |-> "idle"]
    /\ serving = 0
    /\ request = [path |-> <<"", "">>, range |-> NoRange]
    /\ response = NoResponse
    /\ outcome = "none"
    /\ job_log = <<>>
    /\ MainIdle
    /\ RenderIdle

\* video_viewer.main up to the server start
BuildChapters ==
    /\ viewer_pc = "start"
    /\ chapters' = build_chapters(scene_videos)
    /\ viewer_pc' = "built"
    /\ UNCHANGED <<scene_videos, srt_pc, entries, offsets, svars, mvars, rvars>>

\* concat_srt.main
ConcatSrt ==
    /\ srt_pc = "start"
    /\ LET out == concat_srt(scene_videos)
       IN  entries' = out[1] /\ offsets' = out[2]
    /\ srt_pc' = "done"
    /\ UNCHANGED <<scene_videos, viewer_pc, chapters, svars, mvars, rvars>>

NextTimeline == BuildChapters \/ ConcatSrt

SpecTimeline == InitTimeline /\ [][NextTimeline]_vars

(***************************************************************************)
(* video_viewer.main from mkdtemp to the process's end, build_chapters     *)
(* taken one loop iteration at a time.                                     *)
(***************************************************************************)
\* scene videos as the viewer sees them (it reads no subtitle file)
MainSegments == { v \in Segments : v.srt = NoSrt }

\* no client and no request yet
ServerIdle ==
    /\ video_file = [state |-> "ok", size |-> 0]
    /\ conn = [c \in Conns |-> "idle"]
    /\ serving = 0
    /\ request = [path |-> <<"", "">>, range |-> NoRange]
    /\ response = NoResponse
    /\ outcome = "none"
    /\ job_log = <<>>

\* main has parsed its arguments, found the final video and a port
InitMain ==
    /\ scene_videos \in SeqsUpTo(MainSegments, MaxSegments)
    /\ viewer_pc = "start"
    /\ chapters = <<>>
    /\ srt_pc = "start"
    /\ entries = <<>>
    /\ offsets = <<>>
    /\ temp_dir = {}
    /\ temp_exists = FALSE
    /\ build_k = 1
    /\ build_time = FloatZero
    /\ leaving = "none"
    /\ ServerIdle
    /\ RenderIdle

\* f"thumb_{i}.jpg", without the "thumb_" that every name starts with
ThumbName(i) == ToString(i) \o ".jpg"

\* an indexer that appends only when the thumbnail was extracted
Appended_OnlyWithThumb(chs, chapter, extracted) ==
    IF extracted THEN Append(chs, chapter) ELSE chs

\* extract_thumbnail(...) with its result dropped, then chapters.append({...})
Appended(chs, chapter, extracted) == Append(chs, chapter)

\* rmtree placed in the "except KeyboardInterrupt" clause
RunsFinally_OnlyOnInterrupt(how) == how = "interrupt"

\* "finally:" runs however the try block was left
RunsFinally(how) == TRUE

\* temp_dir = tempfile.mkdtemp(prefix="manim_viewer_")
Mkdtemp ==
    /\ viewer_pc = "start"
    /\ temp_exists' = TRUE
    /\ viewer_pc' = "building"
    /\ UNCHANGED <<scene_videos, chapters, srt_pc, entries, offsets, svars,
                   build_k, build_time, leaving, rvars>>

\* one iteration of build_chapters' loop; ffmpeg extracts the thumbnail or not
BuildStep ==
    /\ viewer_pc = "building"
    /\ build_k <= Len(scene_videos)
    /\ IF SkipVideo(scene_videos[build_k])
       THEN UNCHANGED <<chapters, temp_dir, build_time>>
       ELSE \E extracted \in BOOLEAN :
              /\ temp_dir' = IF extracted
                             THEN temp_dir \cup {ThumbName(build_k - 1)}
                             ELSE temp_dir
              /\ chapters' = Appended(chapters,
                                      Chapter(build_k - 1, scene_videos[build_k],
                                              build_time),
                                      extracted)
              /\ build_time' = AdvanceTime(build_time,
                                           get_video_duration(scene_videos[build_k]))
    /\ build_k' = build_k + 1
    /\ UNCHANGED <<scene_videos, viewer_pc, srt_pc, entries, offsets, video_file,
                   conn, serving, request, response, outcome, job_log,
                   temp_exists, leaving, rvars>>

\* return chapters
BuildReturn ==
    /\ viewer_pc = "building"
    /\ build_k > Len(scene_videos)
    /\ viewer_pc' = "starting"
    /\ UNCHANGED <<scene_videos, chapters, srt_pc, entries, offsets, svars,
                   mvars, rvars>>

\* socketserver.TCPServer(("", port), handler) binds; serve_forever()
StartServer ==
    /\ viewer_pc = "starting"
    /\ viewer_pc' = "serving"
    /\ UNCHANGED <<scene_videos, chapters, srt_pc, entries, offsets, svars,
                   mvars, rvars>>

\* an exception inside the try block: ffprobe or ffmpeg cannot be started
\* for an existing video, or the port cannot be bound
Raise ==
    /\ \/ /\ viewer_pc = "building"
          /\ build_k <= Len(scene_videos)
          /\ ~SkipVideo(scene_videos[build_k])
       \/ viewer_pc = "starting"
    /\ leaving' = "exception"
    /\ viewer_pc' = "finally"
    /\ UNCHANGED <<scene_videos, chapters, srt_pc, entries, offsets, svars,
                   temp_exists, build_k, build_time, rvars>>

\* Ctrl-C inside the try block; "except KeyboardInterrupt" prints "Stopped"
KeyboardInterrupt ==
    /\ viewer_pc \in {"building", "starting", "serving"}
    /\ leaving' = "interrupt"
    /\ viewer_pc' = "finally"
    /\ UNCHANGED <<scene_videos, chapters, srt_pc, entries, offsets, svars,
                   temp_exists, build_k, build_time, rvars>>

\* serve_forever returns and the "with" block closes the server
ServerStop ==
    /\ viewer_pc = "serving"
    /\ leaving' = "return"
    /\ viewer_pc' = "finally"
    /\ UNCHANGED <<scene_videos, chapters, srt_pc, entries, offsets, svars,
                   temp_exists, build_k, build_time, rvars>>

\* shutil.rmtree(temp_dir, ignore_errors=True), then main is left
Finally ==
    /\ viewer_pc = "finally"
    /\ IF RunsFinally(leaving)
       THEN temp_exists' = FALSE /\ temp_dir' = {}
       ELSE UNCHANGED <<temp_exists, temp_dir>>
    /\ viewer_pc' = "exited"
    /\ UNCHANGED <<scene_videos, chapters, srt_pc, entries, offsets, video_file,
                   conn, serving, request, response, outcome, job_log,
                   build_k, build_time, leaving, rvars>>

NextMain ==
    \/ Mkdtemp
    \/ BuildStep
    \/ BuildReturn
    \/ StartServer
    \/ Raise
    \/ KeyboardInterrupt
    \/ ServerStop
    \/ Finally

SpecMain == InitMain /\ [][NextMain]_vars

(***************************************************************************)
(* render_manim.py: render_scenes with its worker threads, then            *)
(* stitch_videos on what was rendered                                      *)
(***************************************************************************)
MaxScenes == 3

SceneNames == {"A", "B"}

\* what subprocess.run(cmd, ..., timeout=...) comes to: exit code 0 (and,
\* for manim, the video where it is expected), another exit code or no
\* video, TimeoutExpired, or another exception (the tool cannot be started)
ToolRuns == {"ok", "failed", "timeout", "oserror"}

\* a render whose timeout nobody catches
_render_single_scene_Uncaught(scene_name, run) ==
    IF run = "timeout" THEN [name |-> scene_name, status |-> "raised", output |-> ""]
    ELSE IF run = "oserror"
    THEN [name |-> scene_name, status |-> "error", output |-> "str(e)"]
    ELSE [name |-> scene_name,
          status |-> IF run = "ok" THEN "success" ELSE "error",
          output |-> "stderr"]

\* _render_single_scene: the per-scene result dict
_render_single_scene(scene_name, run) ==
    IF run = "timeout"
    THEN [name |-> scene_name, status |-> "error",
          output |-> "Render timeout (600s exceeded)"]
    ELSE IF run = "oserror"
    THEN [name |-> scene_name, status |-> "error", output |-> "str(e)"]
    ELSE [name |-> scene_name,
          status |-> IF run = "ok" THEN "success" ELSE "error",
          output |-> "stderr"]

\* scene_order = {name: i for i, name in enumerate(scenes)}: a name that is
\* listed twice keeps the index of its last place
scene_order(names, name) ==
    (CHOOSE i \in DOMAIN names :
        names[i] = name /\ \A j \in DOMAIN names : j > i => names[j] # name) - 1

\* r put into a list sorted by key, behind everything with the same key
RECURSIVE Inserted(_, _, _)
Inserted(sorted, r, names) ==
    IF sorted = <<>> THEN <<r>>
    ELSE IF scene_order(names, sorted[Len(sorted)].name) <= scene_order(names, r.name)
         THEN Append(sorted, r)
         ELSE Append(Inserted(SubSeq(sorted, 1, Len(sorted) - 1), r, names),
                     sorted[Len(sorted)])

\* scene_results.sort(key=...): list.sort is stable
RECURSIVE SortedByOrder(_, _, _)
SortedByOrder(results, k, names) ==
    IF k = 0 THEN <<>>
    ELSE Inserted(SortedByOrder(results, k - 1, names), results[k], names)

\* stitch_videos' return value for what ffmpeg came to
StitchResult(run) ==
    IF run = "ok" THEN [status |-> "success", output |-> "output_path"]
    ELSE IF run = "failed" THEN [status |-> "error", error |-> "stderr"]
    ELSE IF run = "timeout"
    THEN [status |-> "error", error |-> "Stitch timeout (300s exceeded)"]
    ELSE [status |-> "error", error |-> "str(e)"]

\* the "render" command with one scene name or more (nargs="+")
InitRender ==
    /\ scenes \in SeqsUpTo(SceneNames, MaxScenes) \ { <<>> }
    /\ futures = <<>>
    /\ scene_results = <<>>
    /\ render_pc = "start"
    /\ stitch_run = "none"
    /\ stitch_pc = "start"
    /\ concat_file = FALSE
    /\ stitch_result = [status |-> "none"]
    /\ script_exists \in BOOLEAN
    /\ render_result = [status |-> "none"]
    /\ exit_code = <<>>
    /\ scene_videos = <<>>
    /\ viewer_pc = "start"
    /\ chapters = <<>>
    /\ srt_pc = "start"
    /\ entries = <<>>
    /\ offsets = <<>>
    /\ temp_dir = {}
    /\ temp_exists = FALSE
    /\ build_k = 1
    /\ build_time = FloatZero
    /\ leaving = "none"
    /\ ServerIdle

\* a render_manim that reports success as soon as one scene succeeded
OverallStatus_AnySuccess(results, names) ==
    IF Len(SelectSeq(results, LAMBDA r : r.status = "success")) > 0
    THEN "success" ELSE "error"

\* success_count = sum(1 for r in scene_results if r["status"] == "success")
\* "success" if success_count == len(scenes) else "partial" if success_count
\* else "error"
OverallStatus(results, names) ==
    IF Len(SelectSeq(results, LAMBDA r : r.status = "success")) = Len(names)
    THEN "success"
    ELSE IF Len(SelectSeq(results, LAMBDA r : r.status = "success")) # 0
         THEN "partial" ELSE "error"

\* return 0 if result.get("status") == "success" else 1
ExitCode(result) == IF result.status = "success" THEN 0 ELSE 1

\* render_manim: if not script.exists(), return an error dict at once
ScriptNotFound ==
    /\ render_pc = "start"
    /\ ~script_exists
    /\ render_result' = [status |-> "error", error |-> "Script file not found"]
    /\ render_pc' = "no_script"
    /\ UNCHANGED <<tvars, svars, mvars, scenes, futures, scene_results, stitch_run,
                   stitch_pc, concat_file, stitch_result, script_exists, exit_code>>

\* render_manim after render_scenes: the overall status and the return
RenderManimReturn ==
    /\ render_pc = "returned"
    /\ render_result.status = "none"
    /\ render_result' = [status |-> OverallStatus(scene_results, scenes),
                         scenes |-> scene_results]
    /\ UNCHANGED <<tvars, svars, mvars, scenes, futures, scene_results, render_pc,
                   stitch_run, stitch_pc, concat_file, stitch_result,
                   script_exists, exit_code>>

\* main prints the result and returns the exit code
MainReturn ==
    /\ render_result.status # "none"
    /\ exit_code = <<>>
    /\ exit_code' = <<ExitCode(render_result)>>
    /\ UNCHANGED <<tvars, svars, mvars, scenes, futures, scene_results, render_pc,
                   stitch_run, stitch_pc, concat_file, stitch_result,
                   script_exists, render_result>>

\* executor.submit(_render_single_scene, ...) for scene in scenes
Submit ==
    /\ render_pc = "start"
    /\ script_exists
    /\ futures' = [k \in DOMAIN scenes |-> [run |-> "running"]]
    /\ render_pc' = "submitted"
    /\ UNCHANGED <<tvars, svars, mvars, cvars, scenes, scene_results, stitch_run,
                   stitch_pc, concat_file, stitch_result>>

\* a worker's manim run ends, and as_completed hands its future to the
\* loop, which appends the result
WorkerFinish(k) ==
    /\ render_pc = "submitted"
    /\ k \in DOMAIN futures
    /\ futures[k].run = "running"
    /\ \E run \in ToolRuns :
         /\ futures' = [futures EXCEPT ![k] = [run |-> run]]
         /\ scene_results' = Append(scene_results, _render_single_scene(scenes[k], run))
    /\ UNCHANGED <<tvars, svars, mvars, cvars, scenes, render_pc, stitch_run, stitch_pc,
                   concat_file, stitch_result>>

\* every future is done: sort by original scene order and return
SortReturn ==
    /\ render_pc = "submitted"
    /\ \A k \in DOMAIN futures : futures[k].run # "running"
    /\ scene_results' = SortedByOrder(scene_results, Len(scene_results), scenes)
    /\ render_pc' = "returned"
    /\ UNCHANGED <<tvars, svars, mvars, cvars, scenes, futures, stitch_run, stitch_pc,
                   concat_file, stitch_result>>

\* stitch_videos up to the try: a missing video ends it before the concat
\* list is written
StitchList ==
    /\ render_pc = "returned"
    /\ stitch_pc = "start"
    /\ \E missing \in BOOLEAN :
         IF missing
         THEN /\ stitch_result' = [status |-> "error", error |-> "Missing video files"]
              /\ stitch_pc' = "returned"
              /\ UNCHANGED concat_file
         ELSE /\ concat_file' = TRUE
              /\ stitch_pc' = "listed"
              /\ UNCHANGED stitch_result
    /\ UNCHANGED <<tvars, svars, mvars, cvars, scenes, futures, scene_results, render_pc,
                   stitch_run>>

\* the try block: ffmpeg runs and the return value is chosen
StitchRun ==
    /\ stitch_pc = "listed"
    /\ \E run \in ToolRuns :
         /\ stitch_run' = run
         /\ stitch_result' = StitchResult(run)
    /\ stitch_pc' = "ran"
    /\ UNCHANGED <<tvars, svars, mvars, cvars, scenes, futures, scene_results, render_pc,
                   concat_file>>

\* finally: concat_file.unlink(missing_ok=True), then the return
StitchFinally ==
    /\ stitch_pc = "ran"
    /\ concat_file' = FALSE
    /\ stitch_pc' = "returned"
    /\ UNCHANGED <<tvars, svars, mvars, cvars, scenes, futures, scene_results, render_pc,
                   stitch_run, stitch_result>>

NextRender ==
    \/ ScriptNotFound
    \/ Submit
    \/ \E k \in 1..MaxScenes : WorkerFinish(k)
    \/ SortReturn
    \/ RenderManimReturn
    \/ MainReturn
    \/ StitchList
    \/ StitchRun
    \/ StitchFinally

SpecRender == InitRender /\ [][NextRender]_vars

(***************************************************************************)
(* Claims about the timeline tools, checked under SpecTimeline             *)
(***************************************************************************)
AllExist == \A k \in DOMAIN scene_videos : scene_videos[k].exists

Existing(videos) == SelectSeq(videos, LAMBDA v : v.exists)

Starts(chs) == [i \in DOMAIN chs |-> chs[i].start]

\* C1: when every segment of the list exists, build_chapters returns one
\* chapter per segment in input order, each with its segment's probed
\* duration; the first starts at 0 and each next one starts where the one
\* before it ends (start + duration of the one before).
C1_ChaptersContiguous ==
    (viewer_pc = "built" /\ AllExist) =>
        /\ Len(chapters) = Len(scene_videos)
        /\ \A i \in DOMAIN chapters :
             /\ chapters[i].index = i - 1
             /\ chapters[i].duration = get_video_duration(scene_videos[i])
             /\ chapters[i].start =
                  IF i = 1 THEN FloatZero
                  ELSE FloatAdd(chapters[i - 1].start, chapters[i - 1].duration)

\* three existing segments indexed, the third starting after two durations
\* whose float sum is not the first one's start
C1_Witness ==
    /\ viewer_pc = "built" /\ AllExist
    /\ Len(chapters) = 3
    /\ chapters[2].start # FloatZero
    /\ chapters[3].start # chapters[2].start

\* the time a block or an entry states, in milliseconds
TimeMs(t) == ((t[1] * 60 + t[2]) * 60 + t[3]) * 1000 + t[4]

\* the duration ffprobe reported, in milliseconds (0 when it reported none)
ProbedMs(video) ==
    IF video.probe.rc = 0 /\ video.probe.duration # NoDuration
    THEN video.probe.duration ELSE 0

RECURSIVE SumProbedMs(_, _)
SumProbedMs(videos, k) ==
    IF k = 0 THEN 0 ELSE SumProbedMs(videos, k - 1) + ProbedMs(videos[k])

WellFormed(block) == Len(block) >= 3 /\ block[2].kind = "time"

\* <<start, end>> in milliseconds of every well-formed block of the list's
\* subtitle files, in order, each shifted by the durations before its segment
RECURSIVE ShiftedBlocks(_, _)
ShiftedBlocks(videos, k) ==
    IF k = 0 THEN <<>>
    ELSE ShiftedBlocks(videos, k - 1) \o
         [j \in DOMAIN SelectSeq(videos[k].srt, WellFormed) |->
            <<TimeMs(SelectSeq(videos[k].srt, WellFormed)[j][2].start)
                + SumProbedMs(videos, k - 1),
              TimeMs(SelectSeq(videos[k].srt, WellFormed)[j][2].end)
                + SumProbedMs(videos, k - 1)>>]

\* C6: every well-formed block of segment k is emitted with its start and
\* end shifted by exactly the sum of the probed durations of the segments
\* before k, subtitle file or not.
C6_BlocksShiftedExactly ==
    srt_pc = "done" =>
        /\ Len(entries) = Len(ShiftedBlocks(scene_videos, Len(scene_videos)))
        /\ \A j \in DOMAIN entries :
             <<TimeMs(entries[j].start), TimeMs(entries[j].end)>>
                = ShiftedBlocks(scene_videos, Len(scene_videos))[j]

\* C7: the offset the merger applies to segment k is the start of the
\* chapter built for segment k, for the same list and probe results.
C7_MergerAgreesWithChapters ==
    (viewer_pc = "built" /\ srt_pc = "done") =>
        \A i \in DOMAIN chapters :
            chapters[i].start = offsets[chapters[i].index + 1]

\* both tools have run on a list with a missing segment and a segment
\* without subtitles before a later chapter whose own probe failed
C7_Witness ==
    /\ viewer_pc = "built" /\ srt_pc = "done"
    /\ \E i \in DOMAIN chapters :
         /\ chapters[i].start # FloatZero
         /\ scene_videos[chapters[i].index + 1].probe.rc # 0
         /\ \E k \in 1..chapters[i].index : ~scene_videos[k].exists
         /\ \E k \in 1..chapters[i].index :
              /\ scene_videos[k].srt = NoSrt
              /\ ProbedMs(scene_videos[k]) > 0

\* C8: a path that is not on disk gives no chapter and no error, and the
\* other chapters start where they would start had the path not been listed.
C8_MissingSegmentOmitted ==
    viewer_pc = "built" =>
        /\ Len(chapters) = Len(Existing(scene_videos))
        /\ \A i \in DOMAIN chapters : scene_videos[chapters[i].index + 1].exists
        /\ Starts(chapters) = Starts(build_chapters(Existing(scene_videos)))

\* a missing path between two indexed segments, the later one not at 0
C8_Witness ==
    /\ viewer_pc = "built"
    /\ Len(scene_videos) = 3
    /\ scene_videos[1].exists /\ ~scene_videos[2].exists /\ scene_videos[3].exists
    /\ Len(chapters) = 2
    /\ chapters[2].start # FloatZero

\* the well-formed blocks of the first k segments' subtitle files, in
\* segment order and, within a segment, in block order
RECURSIVE WellFormedBlocks(_, _)
WellFormedBlocks(videos, k) ==
    IF k = 0 THEN <<>>
    ELSE WellFormedBlocks(videos, k - 1) \o SelectSeq(videos[k].srt, WellFormed)

\* C12: the merged entries are numbered 1, 2, ..., m in output order, which
\* is segment order and then block order, whatever was skipped between.
C12_NumberedFromOne ==
    srt_pc = "done" =>
        /\ Len(entries) = Len(WellFormedBlocks(scene_videos, Len(scene_videos)))
        /\ \A j \in DOMAIN entries :
             /\ entries[j].number = j
             /\ entries[j].text =
                  Tail(Tail(WellFormedBlocks(scene_videos, Len(scene_videos))[j]))

\* two subtitle files merged, a block skipped in each, four entries out
C12_Witness ==
    /\ srt_pc = "done"
    /\ Len(entries) = 4
    /\ entries[4].number = 4
    /\ \E k \in DOMAIN scene_videos :
         \E b \in DOMAIN scene_videos[k].srt : BlockSkipped(scene_videos[k].srt[b])

\* the segment list with the malformed blocks taken out of its files
Cleaned(videos) ==
    [k \in DOMAIN videos |->
        [videos[k] EXCEPT !.srt = SelectSeq(videos[k].srt, WellFormed)]]

VideoPath == <<"/video.mp4", "">>

\* bytes first..last of the video (the byte at offset k is k)
Window(first, last) == [k \in 1..(last - first + 1) |-> first + k - 1]

\* C2: a Range header "bytes=<start>-<end>" with both bounds gets 206,
\* Content-Range "bytes <start>-<end>/<size>", Content-Length end-start+1,
\* Accept-Ranges "bytes" and exactly the bytes start..end as body, so that
\* the body is as long as the Content-Length says.
C2_RangeBothBounds ==
    ( /\ outcome = "answered" /\ request.path = VideoPath
      /\ request.range.unit = "bytes"
      /\ request.range.first # <<>> /\ request.range.last # <<>>
      /\ ~response.failed ) =>
        /\ response.status = 206
        /\ response.content_range =
             <<int(request.range.first), int(request.range.last), video_file.size>>
        /\ response.content_length =
             <<int(request.range.last) - int(request.range.first) + 1>>
        /\ response.accept_ranges = "bytes"
        /\ response.body = Window(int(request.range.first), int(request.range.last))
        /\ <<Len(response.body)>> = response.content_length

\* C3: "bytes=<start>-" on a file of N bytes with start < N gets 206,
\* Content-Range "bytes <start>-<N-1>/<N>", Content-Length N-start and the
\* N-start bytes from offset start to the end of the file.
C3_OpenEndedRange ==
    ( /\ outcome = "answered" /\ request.path = VideoPath
      /\ request.range.unit = "bytes"
      /\ request.range.first # <<>> /\ request.range.last = <<>>
      /\ int(request.range.first) < video_file.size
      /\ ~response.failed ) =>
        /\ response.status = 206
        /\ response.content_range =
             <<int(request.range.first), video_file.size - 1, video_file.size>>
        /\ response.content_length = <<video_file.size - int(request.range.first)>>
        /\ response.accept_ranges = "bytes"
        /\ response.body = Window(int(request.range.first), video_file.size - 1)

\* an open-ended range from offset 1 of a 3-byte video, answered in full
C3_Witness ==
    /\ outcome = "answered" /\ request.path = VideoPath
    /\ request.range = [unit |-> "bytes", first |-> <<1>>, last |-> <<>>]
    /\ video_file.size = 3
    /\ response.body = <<1, 2>>

\* C4: a failure while serve_file reads or serves the file gives the
\* client a 5xx response (and the server goes on serving).
C4_FailureGives5xx ==
    (outcome = "answered" /\ response.failed) => response.status \in 500..599

\* C5: while one request is being served, the request of another
\* connection can be taken up and answered.
C5_ConcurrentService ==
    \A c1, c2 \in Conns :
        (conn[c1] = "serving" /\ conn[c2] = "pending") => ENABLED HandleRequest(c2)

\* the paths do_GET has a branch for
Routed(path) ==
    \/ path \in { <<"/", "">>, <<"/index.html", "">>, <<"/video.mp4", "">>,
                  <<"/chapters.json", "">> }
    \/ path[1] = "/thumb_"

\* C13: a GET for a path without a route, or for a /thumb_... whose file
\* is not in the temporary directory, is answered 404 and with no file
\* content.
C13_NotFound ==
    ( /\ outcome = "answered"
      /\ \/ ~Routed(request.path)
         \/ request.path[1] = "/thumb_" /\ request.path[2] \notin temp_dir ) =>
        /\ response.status = 404
        /\ response.kind = "error_page"
        /\ response.body = <<>>

\* thumb_1.jpg, which was never extracted, asked for and refused
C13_Witness ==
    /\ outcome = "answered"
    /\ request.path = <<"/thumb_", "1.jpg">>
    /\ "1.jpg" \notin temp_dir
    /\ response.status = 404

\* the request is one do_GET hands to serve_file
ServedFile(req) ==
    \/ req.path = VideoPath
    \/ req.path[1] = "/thumb_" /\ req.path[2] \in temp_dir

\* the bytes of the file the request names
ContentOf(req) ==
    IF req.path = VideoPath THEN FileBytes(video_file.size) ELSE ThumbBytes

\* C16: a request to serve_file without a Range header "bytes=<start>-..."
\* gets 200, Content-Length equal to the file's size, Accept-Ranges "bytes"
\* and the whole file as body.
C16_FullBody ==
    ( /\ outcome = "answered" /\ ServedFile(request)
      /\ ~(request.range.unit = "bytes" /\ request.range.first # <<>>)
      /\ ~response.failed ) =>
        /\ response.status = 200
        /\ response.content_range = <<>>
        /\ response.content_length = <<Len(ContentOf(request))>>
        /\ response.accept_ranges = "bytes"
        /\ response.body = ContentOf(request)

\* a Range header in another unit, answered with the whole 3-byte video
C16_Witness ==
    /\ outcome = "answered" /\ request.path = VideoPath
    /\ request.range.unit = "items"
    /\ response.status = 200
    /\ response.body = <<0, 1, 2>>

\* C17: a client that disconnects while serve_file writes (broken pipe or
\* connection reset) ends that response silently: nothing is raised or
\* reported, the handler has returned, and the server takes up whatever
\* request is waiting.
C17_DisconnectAbsorbed ==
    (outcome \in {"dropped", "reported"} /\ response.kind = "file") =>
        /\ outcome = "dropped"
        /\ serving = 0
        /\ \A c \in Conns : conn[c] = "pending" => ENABLED HandleRequest(c)

\* a 206 response cut short by the client while another client waits
C17_Witness ==
    /\ outcome = "dropped"
    /\ response.kind = "file" /\ response.status = 206
    /\ serving = 0
    /\ \E c \in Conns : conn[c] = "pending"

(***************************************************************************)
(* Claims about the download job, checked under SpecDownload               *)
(***************************************************************************)
StatusPath == <<"/download", "/status">>

HighPath == <<"/download", "?quality=high">>

\* a 200 response whose body is a JobState object
IsJobState(r) == r.status = 200 /\ r.kind = "job_state"

\* C9: every poll of /download/status returns a progressPercent that is
\* not lower than an earlier poll's, and 100 once a poll has shown Ready.
C9_ProgressNeverDecreases ==
    \A j \in DOMAIN job_log :
        job_log[j].path = StatusPath =>
            /\ IsJobState(job_log[j].response)
            /\ \A i \in 1..(j - 1) :
                 job_log[i].path = StatusPath =>
                    /\ job_log[i].response.body.progressPercent
                         <= job_log[j].response.body.progressPercent
                    /\ job_log[i].response.body.phase = "Ready"
                         => job_log[j].response.body.progressPercent = 100

\* C10: a high-quality download that ends with an error status leaves the
\* job Failed with a message, which a later poll shows, and the video
\* is served as before.
C10_FailedJobReported ==
    \A i, j \in DOMAIN job_log :
        ( /\ i < j
          /\ job_log[i].path = HighPath /\ job_log[i].response.status >= 400
          /\ job_log[j].path = StatusPath ) =>
            /\ IsJobState(job_log[j].response)
            /\ job_log[j].response.body.phase = "Failed"
            /\ job_log[j].response.body.message # ""

(***************************************************************************)
(* Claims about video_viewer.main, checked under SpecMain                  *)
(***************************************************************************)
\* C11: once the temporary directory has been created, main is left, by
\* whichever way (server stop, Ctrl-C while serving, Ctrl-C or exception
\* while the chapters are built or the server starts), only with the
\* directory and everything in it removed.
C11_TempDirRemoved ==
    viewer_pc = "exited" => (~temp_exists /\ temp_dir = {})

\* main left by Ctrl-C in the middle of build_chapters, after a chapter
C11_Witness ==
    /\ viewer_pc = "exited" /\ leaving = "interrupt"
    /\ build_k <= Len(scene_videos)
    /\ chapters # <<>>
    /\ ~temp_exists

\* build_chapters has returned
BuildReturned == viewer_pc \in {"starting", "serving"}

\* C14: build_chapters appends one chapter for each segment on disk, in
\* input order, whatever ffprobe and ffmpeg returned for it: a failed probe
\* gives the chapter duration 0.0, so that the next chapter starts where
\* this one does, and a failed thumbnail extraction changes nothing.
C14_MediaFailuresTolerated ==
    BuildReturned =>
        /\ Len(chapters) = Len(Existing(scene_videos))
        /\ \A p \in DOMAIN chapters :
             /\ scene_videos[chapters[p].index + 1] = Existing(scene_videos)[p]
             /\ p > 1 => chapters[p - 1].index < chapters[p].index
             /\ Existing(scene_videos)[p].probe.rc # 0 =>
                  /\ chapters[p].duration = FloatZero
                  /\ p < Len(chapters) => chapters[p + 1].start = chapters[p].start
             /\ Existing(scene_videos)[p].probe = [rc |-> 0, duration |-> 10000] =>
                  chapters[p].duration = FloatOfInt(10)

\* a segment whose probe and whose thumbnail extraction both failed has its
\* chapter, and so has a later segment
C14_Witness ==
    /\ BuildReturned
    /\ \E p \in DOMAIN chapters :
         /\ Existing(scene_videos)[p].probe.rc # 0
         /\ ThumbName(chapters[p].index) \notin temp_dir
         /\ p < Len(chapters)
         /\ chapters[p + 1].start # FloatZero

\* what the page's <img src="/thumb_${i}.jpg"> for list entry i is answered
ThumbResponse(i) ==
    do_GET([path |-> <<"/thumb_", ThumbName(i)>>, range |-> NoRange],
           video_file, temp_dir, chapters)

\* C20: in the list build_chapters returns, for every input list, a
\* chapter's index is its position in the list and its thumbnail is named
\* after that position, so that the page's request /thumb_<k>.jpg for the
\* k-th entry is answered with the thumbnail of that entry's segment.
C20_IndexIsPosition ==
    BuildReturned =>
        \A p \in DOMAIN chapters :
            /\ chapters[p].index = p - 1
            /\ chapters[p].thumbnail = p - 1
            /\ ThumbName(chapters[p].index) \in temp_dir =>
                 ThumbResponse(p - 1).status = 200

(***************************************************************************)
(* Claims about render_manim.py, checked under SpecRender                  *)
(***************************************************************************)
\* C18: a manim or ffmpeg run that exceeds its timeout comes back as an
\* ordinary failure: the scene's result has status "error", stitch_videos
\* returns status "error", nothing is raised to the caller, and the
\* temporary concat list is removed all the same.
C18_TimeoutIsFailure ==
    /\ \A r \in DOMAIN scene_results : scene_results[r].status \in {"success", "error"}
    /\ \A k \in DOMAIN futures :
         futures[k].run = "timeout" =>
            \E r \in DOMAIN scene_results :
                /\ scene_results[r].name = scenes[k]
                /\ scene_results[r].status = "error"
                /\ scene_results[r].output = "Render timeout (600s exceeded)"
    /\ (stitch_pc = "returned" /\ stitch_run = "timeout") =>
            /\ stitch_result.status = "error"
            /\ ~concat_file

\* a render that timed out for one scene, and then a stitch that timed out
C18_Witness ==
    /\ render_pc = "returned"
    /\ \E k \in DOMAIN futures : futures[k].run = "timeout"
    /\ stitch_pc = "returned" /\ stitch_run = "timeout"
    /\ stitch_result.status = "error"
    /\ ~concat_file

\* C19: whatever order the workers finish in, render_scenes returns one
\* result for each requested scene, result k being that of scenes[k].
C19_ResultsInSceneOrder ==
    render_pc = "returned" =>
        /\ Len(scene_results) = Len(scenes)
        /\ \A k \in DOMAIN scenes : scene_results[k].name = scenes[k]

\* C21: with the script on disk, render_manim's status is "success"
\* exactly when every requested scene's result is a success, "error"
\* exactly when none is, "partial" otherwise; and the exit code is 0
\* exactly when the status is "success".
C21_OverallStatus ==
    /\ (script_exists /\ render_result.status # "none") =>
          /\ Len(scene_results) = Len(scenes)
          /\ render_result.status \in {"success", "partial", "error"}
          /\ render_result.status = "success" <=>
                \A k \in DOMAIN scene_results : scene_results[k].status = "success"
          /\ render_result.status = "error" <=>
                \A k \in DOMAIN scene_results : scene_results[k].status # "success"
    /\ exit_code # <<>> =>
          /\ exit_code \in {<<0>>, <<1>>}
          /\ exit_code = <<0>> <=> render_result.status = "success"

\* three scenes of which one failed: "partial", and exit code 1
C21_Witness ==
    /\ script_exists
    /\ Len(scenes) = 3
    /\ render_result.status = "partial"
    /\ \E k \in DOMAIN scene_results : scene_results[k].status = "success"
    /\ \E k \in DOMAIN scene_results : scene_results[k].status = "error"
    /\ exit_code = <<1>>

=============================================================================
